---- MODULE Spec2Model ----
(***************************************************************************)
(* The streaming-response observer of the Anthropic instrumentation:       *)
(* build_from_streaming_response / abuild_from_streaming_response and the  *)
(* helpers they call (streaming.py).  A generator is modelled by the       *)
(* position it is suspended at (pc); one action is one resumption of the   *)
(* generator by its consumer (next, throw, close), run up to the next      *)
(* yield or to the generator's end.                                        *)
(***************************************************************************)
EXTENDS Integers, Sequences, FiniteSets, TLC

VARIABLES
    mode,               \* "sync": build_from_..., "async": abuild_from_...
    recorders,          \* which of the optional recorder arguments are not None
    Config,             \* the global flags read at finalization
    pc,                 \* where the generator is: start, yielded, done, raised, closed
    source,             \* the items the source iterator (response) has produced so far
    received,           \* the items the consumer has been handed
    complete_response,  \* the accumulator, a local of the generator
    raised,             \* the exception that left the generator towards the consumer
    span,               \* the span handle's recorded state
    metrics,            \* what the recorders have been given
    fault,              \* the collaborator that raised when it was called, if any
    peer                \* a second generator, over another stream: its own locals

vars == <<mode, recorders, Config, pc, source, received, complete_response,
          raised, span, metrics, fault, peer>>

(***************************************************************************)
(* Bounds of the model.                                                    *)
(***************************************************************************)
MaxItems == 2       \* items a source produces, specification Spec
MaxStream == 3      \* items a source produces, specification SpecTelemetry
MaxEvents == 5      \* items folded, specification SpecEvents
MaxUsage == 4       \* items folded, specification SpecUsage
MaxPeers == 2       \* items each source produces, specification SpecPeers

(***************************************************************************)
(* Python values.                                                          *)
(***************************************************************************)
NONE == "None"                  \* the value None, where a string may stand
NoException == "none"
Missing == "<missing>"          \* an attribute the item does not have

EmptyDict == [k \in {} |-> 0]
Get(d, k, default) == IF k \in DOMAIN d THEN d[k] ELSE default
Put(d, k, v) == [x \in DOMAIN d \cup {k} |-> IF x = k THEN v ELSE d[x]]
Truthy(d) == DOMAIN d # {}

(***************************************************************************)
(* Stream items.  Every item is a record of the same shape; a field an     *)
(* item kind does not carry holds a filler.  usage.shape says what reading *)
(* item.usage / item.message.usage gives: "map" a usable mapping, "none"   *)
(* None, "bad" something dict() raises on or that cannot be read.          *)
(***************************************************************************)
Item(t, m, u, i, dt, tx, sr) ==
    [type |-> t, model |-> m, usage |-> u, index |-> i, delta_type |-> dt,
     text |-> tx, stop_reason |-> sr]

NoUsage == [shape |-> "none", map |-> EmptyDict]
BadUsage == [shape |-> "bad", map |-> EmptyDict]
UsageOf(m) == [shape |-> "map", map |-> m]

MessageStart(m, u) == Item("message_start", m, u, 0, NONE, "", NONE)
ContentBlockStart(i) == Item("content_block_start", "", NoUsage, i, NONE, "", NONE)
TextDelta(i, tx) == Item("content_block_delta", "", NoUsage, i, "text_delta", tx, NONE)
JsonDelta(i) == Item("content_block_delta", "", NoUsage, i, "input_json_delta", "", NONE)
MessageDelta(sr, u) == Item("message_delta", "", u, 0, NONE, "", sr)
Ping == Item("ping", "", NoUsage, 0, NONE, "", NONE)
Malformed == Item(Missing, "", NoUsage, 0, NONE, "", NONE)

(***************************************************************************)
(* _process_response_item.  The function is decorated with dont_throw:     *)
(* an exception inside it ends the call and is swallowed, and what the     *)
(* call had already written to complete_response stays written.            *)
(***************************************************************************)
NewEvent(index) == [index |-> index, text |-> "", finish_reason |-> NONE]

SetFinishReasons(events, stop_reason) ==
    [i \in DOMAIN events |-> [events[i] EXCEPT !.finish_reason = stop_reason]]

\* A change a slip at line 33 would make: the delta is put before the text.
AppendText_Prepends(events, index, text) ==
    [events EXCEPT ![index + 1].text = text \o @]

AppendText(events, index, text) ==
    [events EXCEPT ![index + 1].text = @ \o text]

\* A change a slip at line 41 would make: the delta replaces the total.
AddOutputTokens_Overwrites(cr, usage_map) ==
    IF "usage" \in DOMAIN cr
    THEN [cr EXCEPT !.usage = Put(@, "output_tokens", Get(usage_map, "output_tokens", 0))]
    ELSE [k \in DOMAIN cr \cup {"usage"} |-> IF k = "usage" THEN usage_map ELSE cr[k]]

AddOutputTokens(cr, usage_map) ==
    IF "usage" \in DOMAIN cr
    THEN LET item_output_tokens == Get(usage_map, "output_tokens", 0)
             existing_output_tokens == Get(cr.usage, "output_tokens", 0)
         IN  [cr EXCEPT !.usage =
                 Put(@, "output_tokens", item_output_tokens + existing_output_tokens)]
    ELSE [k \in DOMAIN cr \cup {"usage"} |-> IF k = "usage" THEN usage_map ELSE cr[k]]

\* A change that would make the first message_start win (line 25).
SetModel_KeepsFirst(cr, model) ==
    IF cr.model = "" THEN [cr EXCEPT !.model = model] ELSE cr

SetModel(cr, model) == [cr EXCEPT !.model = model]

\* A change that would patch the gap instead of failing at line 33: a delta
\* for a slot that does not exist creates the slot.
ApplyTextDelta_CreatesSlot(cr, item) ==
    IF item.index < Len(cr.events)
    THEN [cr EXCEPT !.events = AppendText(@, item.index, item.text)]
    ELSE [cr EXCEPT !.events =
             Append(@, [index |-> item.index, text |-> item.text,
                        finish_reason |-> NONE])]

ApplyTextDelta(cr, item) ==
    IF item.index < Len(cr.events)
    THEN [cr EXCEPT !.events = AppendText(@, item.index, item.text)]
    ELSE cr                                     \* IndexError, swallowed

_process_response_item(item, cr) ==
    IF item.type = Missing
    THEN cr                                     \* item.type raises, swallowed
    ELSE IF item.type = "message_start"
    THEN LET c1 == SetModel(cr, item.model)
         IN  IF item.usage.shape = "map"
             THEN [c1 EXCEPT !.usage = item.usage.map]
             ELSE c1                            \* dict(...) raises, swallowed
    ELSE IF item.type = "content_block_start"
    THEN IF Len(cr.events) <= item.index
         THEN [cr EXCEPT !.events = Append(@, NewEvent(item.index))]
         ELSE cr
    ELSE IF item.type = "content_block_delta" /\ item.delta_type = "text_delta"
    THEN ApplyTextDelta(cr, item)
    ELSE IF item.type = "message_delta"
    THEN LET c1 == [cr EXCEPT !.events = SetFinishReasons(@, item.stop_reason)]
         IN  IF item.usage.shape = "map"
             THEN AddOutputTokens(c1, item.usage.map)
             ELSE c1                            \* None: skipped; bad: raises, swallowed
    ELSE cr

NewResponse == [events |-> <<>>, model |-> "", usage |-> EmptyDict]

(***************************************************************************)
(* Collaborators the observer calls.  They live outside streaming.py; each *)
(* is modelled by its interface.  A collaborator named by fault raises     *)
(* when it is called.                                                      *)
(***************************************************************************)
Recorders == {"token_histogram", "choice_counter", "duration_histogram",
              "exception_counter"}
Faults == {"shared_metrics_attributes", "duration_histogram", "token_histogram",
           "choice_counter", "count_tokens", "set_span_attribute", "add_event"}
NoFault == "none"

SourceErrors == {"APIError"}
ConsumerErrors == {"ValueError"}
TelemetryError == "TelemetryError"

PromptTokens == 4                       \* count_prompt_tokens_from_request(instance, kwargs)
count_tokens(text) == Len(text)         \* instance.count_tokens(text)
shared_metrics_attributes(cr) == [model |-> cr.model]
error_metrics_attributes(e) == [error_type |-> e]

\* set_span_attribute(span, name, value) is a helper of utils.py.  The span
\* state kept here is what the helper was called with, name by name (the
\* last value wins); which values it passes on to the span is its business.
AttributeKey(name) == <<name, 0, "">>
CompletionKey(index, field) == <<"gen_ai.completion", index, field>>
set_span_attribute(sp, key, value) ==
    [sp EXCEPT !.attributes = Put(@, key, value)]

NewSpan(recording) ==
    [recording |-> recording, attributes |-> EmptyDict, events |-> <<>>,
     status |-> <<>>, ended |-> 0]
NewMetrics == [duration |-> <<>>, tokens |-> <<>>, choices |-> <<>>, exceptions |-> <<>>]

(***************************************************************************)
(* _set_token_usage.  It runs inside the caller's try block: when a        *)
(* collaborator raises, the call ends there and what was recorded before   *)
(* stays recorded.  The result is the span and metrics state it leaves.    *)
(***************************************************************************)
\* A change that would count the response once instead of once per slot.
AddChoices_Once(choices, events, attrs) ==
    IF events = <<>>
    THEN choices
    ELSE Append(choices, [finish_reason |-> Head(events).finish_reason,
                          model |-> attrs.model])

RECURSIVE AddChoices(_, _, _)
AddChoices(choices, events, attrs) ==
    IF events = <<>>
    THEN choices
    ELSE AddChoices(Append(choices, [finish_reason |-> Head(events).finish_reason,
                                     model |-> attrs.model]),
                    Tail(events), attrs)

TokenObservation(value, token_type, attrs) ==
    [value |-> value, token_type |-> token_type, model |-> attrs.model]

_set_token_usage(sp, mt, cr, prompt_tokens, completion_tokens, attrs, rec, flt) ==
    LET usage == Get(cr, "usage", EmptyDict)
        cache_read_tokens == Get(usage, "cache_read_input_tokens", 0)
        cache_creation_tokens == Get(usage, "cache_creation_input_tokens", 0)
        input_tokens == prompt_tokens + cache_read_tokens + cache_creation_tokens
        total_tokens == input_tokens + completion_tokens
        s1 == set_span_attribute(sp, AttributeKey("prompt_tokens"), input_tokens)
        s2 == set_span_attribute(s1, AttributeKey("completion_tokens"), completion_tokens)
        s3 == set_span_attribute(s2, AttributeKey("total_tokens"), total_tokens)
        s4 == set_span_attribute(s3, AttributeKey("response_model"), Get(cr, "model", NONE))
        s5 == set_span_attribute(s4, AttributeKey("cache_read_input_tokens"),
                                 cache_read_tokens)
        s6 == set_span_attribute(s5, AttributeKey("cache_creation_input_tokens"),
                                 cache_creation_tokens)
        has_hist == "token_histogram" \in rec
        rec_in == has_hist /\ input_tokens >= 0
        rec_out == has_hist /\ completion_tokens >= 0
        m1 == IF rec_in
              THEN [mt EXCEPT !.tokens = Append(@, TokenObservation(input_tokens, "input", attrs))]
              ELSE mt
        m2 == IF rec_out
              THEN [m1 EXCEPT !.tokens = Append(@, TokenObservation(completion_tokens, "output", attrs))]
              ELSE m1
        m3 == IF "choice_counter" \in rec
              THEN [m2 EXCEPT !.choices = AddChoices(@, cr.events, attrs)]
              ELSE m2
    IN  IF flt = "set_span_attribute"
        THEN [span |-> sp, metrics |-> mt]
        ELSE IF flt = "token_histogram" /\ rec_in
        THEN [span |-> s6, metrics |-> mt]
        ELSE IF flt = "token_histogram" /\ rec_out
        THEN [span |-> s6, metrics |-> m1]
        ELSE IF flt = "choice_counter" /\ "choice_counter" \in rec /\ cr.events # <<>>
        THEN [span |-> s6, metrics |-> m2]
        ELSE [span |-> s6, metrics |-> m3]

(***************************************************************************)
(* _emit_completion_event and _set_completions.                            *)
(***************************************************************************)
_emit_completion_event(sp, content, index, finish_reason) ==
    [sp EXCEPT !.events = Append(@,
        [name |-> "completion", content |-> content, index |-> index,
         finish_reason |-> IF finish_reason = NONE \/ finish_reason = ""
                           THEN NONE ELSE finish_reason])]

RECURSIVE SetLegacyCompletions(_, _)
SetLegacyCompletions(sp, events) ==
    IF events = <<>>
    THEN sp
    ELSE LET event == Head(events)
             index == event.index
             s1 == set_span_attribute(sp, CompletionKey(index, "finish_reason"),
                                      event.finish_reason)
             s2 == set_span_attribute(s1, CompletionKey(index, "content"), event.text)
         IN  SetLegacyCompletions(s2, Tail(events))

RECURSIVE EmitCompletionEvents(_, _, _)
EmitCompletionEvents(sp, events, i) ==
    IF i >= Len(events)
    THEN sp
    ELSE EmitCompletionEvents(
             _emit_completion_event(sp, events[i + 1].text, i, events[i + 1].finish_reason),
             events, i + 1)

_set_completions(sp, events, cfg, flt) ==
    IF ~sp.recording \/ events = <<>>
    THEN sp
    ELSE IF cfg.use_legacy_attributes
    THEN IF flt = "set_span_attribute"
         THEN sp                                \* caught and logged
         ELSE SetLegacyCompletions(sp, events)
    ELSE IF flt = "add_event"
         THEN sp                                \* caught and logged
         ELSE EmitCompletionEvents(sp, events, 0)

(***************************************************************************)
(* Finalization: the code of build_from_streaming_response after its for   *)
(* loop.  The result is the span and metrics state it leaves, and the      *)
(* exception that leaves the generator (NoException: it returns).          *)
(***************************************************************************)
InitialCompletionTokens == -1

RECURSIVE CompletionContent(_)
CompletionContent(events) ==
    IF events = <<>>
    THEN ""
    ELSE Head(events).text \o CompletionContent(Tail(events))

\* The try block under "if Config.enrich_token_usage".  Any exception in it
\* is caught and logged.
\* A change that would fall back to the collaborator whenever the usage
\* holds no input_tokens.
ResolvePromptTokens_CountsWhenMissing(usage) ==
    IF "input_tokens" \in DOMAIN usage
    THEN usage["input_tokens"]
    ELSE PromptTokens

\* prompt_usage: the walrus tests the usage for being non-empty, then
\* .get("input_tokens", 0) reads it.
ResolvePromptTokens(usage) ==
    IF Truthy(usage)
    THEN Get(usage, "input_tokens", 0)
    ELSE PromptTokens

EnrichTokenUsage(md, cr, rec, sp, mt, attrs, flt) ==
    LET usage == Get(cr, "usage", EmptyDict)
        counts_prompt == ~Truthy(usage)
        prompt_tokens == ResolvePromptTokens(usage)
        counts_text == ~Truthy(usage) /\ cr.events # <<>> /\ cr.model # ""
        \* abuild_from_streaming_response has no "completion_tokens = -1":
        \* there the name is unbound unless one of the branches assigns it
        unbound == md = "async" /\ ~Truthy(usage) /\ ~counts_text
        completion_tokens == IF Truthy(usage)
                             THEN Get(usage, "output_tokens", 0)
                             ELSE IF counts_text
                             THEN count_tokens(CompletionContent(cr.events))
                             ELSE InitialCompletionTokens
    IN  IF (counts_prompt \/ counts_text) /\ flt = "count_tokens"
        THEN [span |-> sp, metrics |-> mt]
        ELSE IF unbound
        THEN [span |-> sp, metrics |-> mt]      \* UnboundLocalError, caught
        ELSE _set_token_usage(sp, mt, cr, prompt_tokens, completion_tokens,
                              attrs, rec, flt)

RecordDuration(mt, rec, attrs) ==
    IF "duration_histogram" \in rec
    THEN [mt EXCEPT !.duration = Append(@, attrs)]
    ELSE mt

\* A change a slip at lines 212-213 would make: the status is set and the
\* span is left open.
EndSpan_LeavesOpen(sp) ==
    [sp EXCEPT !.status = Append(@, "OK")]

EndSpan(sp) ==
    [sp EXCEPT !.status = Append(@, "OK"), !.ended = @ + 1]

Finalize(md, cr, rec, cfg, sp, mt, flt) ==
    LET attrs == shared_metrics_attributes(cr)
        has_duration == "duration_histogram" \in rec
        m1 == RecordDuration(mt, rec, attrs)
        r2 == IF cfg.enrich_token_usage
              THEN EnrichTokenUsage(md, cr, rec, sp, m1, attrs, flt)
              ELSE [span |-> sp, metrics |-> m1]
        s3 == IF cfg.should_send_prompts
              THEN _set_completions(r2.span, Get(cr, "events", <<>>), cfg, flt)
              ELSE r2.span
        s4 == EndSpan(s3)
    IN  IF flt = "shared_metrics_attributes"
        THEN [span |-> sp, metrics |-> mt, raised |-> TelemetryError]
        ELSE IF flt = "duration_histogram" /\ has_duration
        THEN [span |-> sp, metrics |-> mt, raised |-> TelemetryError]
        ELSE [span |-> s4, metrics |-> r2.metrics, raised |-> NoException]

(***************************************************************************)
(* The generator.  Each action is one call the consumer makes on it.       *)
(***************************************************************************)
Last(seq) == seq[Len(seq)]

\* Resuming after "yield item": the statement after the try block.
Resume ==
    IF pc = "yielded"
    THEN _process_response_item(Last(source), complete_response)
    ELSE complete_response

\* A change that would break the passthrough: an item the fold does not
\* recognise is pulled and not yielded.
NextItem_DropsUnrecognised(Items, Max) ==
    /\ pc \in {"start", "yielded"}
    /\ Len(source) < Max
    /\ \E item \in Items :
        /\ source' = Append(source, item)
        /\ received' = IF item.type \in {Missing, "ping"}
                       THEN received
                       ELSE Append(received, item)
    /\ complete_response' = Resume
    /\ pc' = "yielded"
    /\ UNCHANGED <<peer, mode, recorders, Config, raised, span, metrics, fault>>

\* A change that would fold an item before yielding it (line 162 moved
\* above line 156).
NextItem_FoldsBeforeYield(Items, Max) ==
    /\ pc \in {"start", "yielded"}
    /\ Len(source) < Max
    /\ \E item \in Items :
        /\ source' = Append(source, item)
        /\ received' = Append(received, item)
        /\ complete_response' = _process_response_item(item, Resume)
    /\ pc' = "yielded"
    /\ UNCHANGED <<peer, mode, recorders, Config, raised, span, metrics, fault>>

\* next(): the source yields an item, which is yielded on to the consumer.
NextItem(Items, Max) ==
    /\ pc \in {"start", "yielded"}
    /\ Len(source) < Max
    /\ \E item \in Items :
        /\ source' = Append(source, item)
        /\ received' = Append(received, item)
    /\ complete_response' = Resume
    /\ pc' = "yielded"
    /\ UNCHANGED <<peer, mode, recorders, Config, raised, span, metrics, fault>>

\* A change that would close the span on a failed pull.
NextRaises_EndsSpan ==
    /\ pc \in {"start", "yielded"}
    /\ \E e \in SourceErrors : raised' = e
    /\ complete_response' = Resume
    /\ pc' = "raised"
    /\ span' = [span EXCEPT !.status = Append(@, "ERROR"), !.ended = @ + 1]
    /\ UNCHANGED <<peer, mode, recorders, Config, source, received, metrics, fault>>

\* next(): the pull from the source raises.  The for statement is outside
\* the try block, so the exception leaves the generator as it is.
NextRaises ==
    /\ pc \in {"start", "yielded"}
    /\ \E e \in SourceErrors : raised' = e
    /\ complete_response' = Resume
    /\ pc' = "raised"
    /\ UNCHANGED <<peer, mode, recorders, Config, source, received, span, metrics, fault>>

\* A fault is told apart from no fault only when the collaborator is called.
Observable(flt, cr) ==
    \/ flt = NoFault
    \/ Finalize(mode, cr, recorders, Config, span, metrics, flt)
         # Finalize(mode, cr, recorders, Config, span, metrics, NoFault)

\* next(): the source is exhausted, the loop ends and finalization runs.
NextExhausted(FaultSet) ==
    /\ pc \in {"start", "yielded"}
    /\ \E flt \in FaultSet \cup {NoFault} :
        /\ Observable(flt, Resume)
        /\ LET r == Finalize(mode, Resume, recorders, Config, span, metrics, flt)
           IN  /\ span' = r.span
               /\ metrics' = r.metrics
               /\ raised' = r.raised
               /\ pc' = IF r.raised = NoException THEN "done" ELSE "raised"
        /\ fault' = flt
    /\ complete_response' = Resume
    /\ UNCHANGED <<peer, mode, recorders, Config, source, received>>

\* throw(e) while the generator is suspended at "yield item": the except
\* clause counts the exception and raises it again.
ConsumerThrow ==
    /\ pc = "yielded"
    /\ \E e \in ConsumerErrors :
        /\ raised' = e
        /\ metrics' = IF "exception_counter" \in recorders
                      THEN [metrics EXCEPT !.exceptions =
                                Append(@, error_metrics_attributes(e))]
                      ELSE metrics
    /\ pc' = "raised"
    /\ UNCHANGED <<peer, mode, recorders, Config, source, received, complete_response,
                   span, fault>>

\* A change that would finalize in a finally clause: closing the generator
\* ends the span.
ConsumerClose_EndsSpan ==
    /\ pc \in {"start", "yielded"}
    /\ pc' = "closed"
    /\ span' = EndSpan(span)
    /\ UNCHANGED <<peer, mode, recorders, Config, source, received, complete_response,
                   raised, metrics, fault>>

\* close(), or the generator being dropped: GeneratorExit is no Exception,
\* the except clause does not catch it.
ConsumerClose ==
    /\ pc \in {"start", "yielded"}
    /\ pc' = "closed"
    /\ UNCHANGED <<peer, mode, recorders, Config, source, received, complete_response,
                   raised, span, metrics, fault>>

(***************************************************************************)
(* A second call of the generator function, over another stream and with   *)
(* another span, running while the first is suspended.  Its locals are     *)
(* those the call creates: the accumulator of line 153 (228) and the loop  *)
(* item; span and metrics hold what this call has given to its span and    *)
(* to the recorders.                                                       *)
(***************************************************************************)
NewPeer ==
    [pc |-> "start", source |-> <<>>, complete_response |-> NewResponse,
     span |-> NewSpan(TRUE), metrics |-> NewMetrics]

PeerResume ==
    IF peer.pc = "yielded"
    THEN _process_response_item(Last(peer.source), peer.complete_response)
    ELSE peer.complete_response

\* A change that would share one accumulator between the calls (a
\* module-level dict instead of the local of line 153): the second
\* generator folds its item into the first one's accumulator.
PeerItem_SharedAccumulator(Items, Max) ==
    /\ peer.pc \in {"start", "yielded"}
    /\ Len(peer.source) < Max
    /\ \E item \in Items :
        peer' = [peer EXCEPT !.source = Append(@, item), !.pc = "yielded"]
    /\ complete_response' =
          IF peer.pc = "yielded"
          THEN _process_response_item(Last(peer.source), complete_response)
          ELSE complete_response
    /\ UNCHANGED <<mode, recorders, Config, pc, source, received, raised, span,
                   metrics, fault>>

\* next() on the second generator: it folds the item it was suspended on
\* and yields the next one.
PeerItem(Items, Max) ==
    /\ peer.pc \in {"start", "yielded"}
    /\ Len(peer.source) < Max
    /\ \E item \in Items :
        peer' = [peer EXCEPT !.source = Append(@, item),
                             !.complete_response = PeerResume,
                             !.pc = "yielded"]
    /\ UNCHANGED <<mode, recorders, Config, pc, source, received,
                   complete_response, raised, span, metrics, fault>>

\* next() on the second generator when its source is exhausted.
PeerExhausted ==
    /\ peer.pc \in {"start", "yielded"}
    /\ LET r == Finalize(mode, PeerResume, recorders, Config, peer.span,
                         peer.metrics, NoFault)
       IN  peer' = [peer EXCEPT !.complete_response = PeerResume,
                                !.span = r.span,
                                !.metrics = r.metrics,
                                !.pc = "done"]
    /\ UNCHANGED <<mode, recorders, Config, pc, source, received,
                   complete_response, raised, span, metrics, fault>>

(***************************************************************************)
(* Streams the specifications draw their items from.                       *)
(***************************************************************************)
Usage1 == ("input_tokens" :> 3) @@ ("output_tokens" :> 1) @@
          ("cache_read_input_tokens" :> 2)
OutputOnly == ("output_tokens" :> 2)

ProtocolItems ==
    {ContentBlockStart(0), TextDelta(0, "a"),
     MessageDelta("end_turn", UsageOf(OutputOnly)), Ping, Malformed}

TelemetryItems ==
    {MessageStart("claude-3", UsageOf(Usage1)), MessageStart("claude-3", BadUsage),
     ContentBlockStart(0), ContentBlockStart(1), TextDelta(0, "a"),
     MessageDelta("end_turn", UsageOf(OutputOnly))}

InputOnly == ("input_tokens" :> 4)
DeltaFull == ("input_tokens" :> 4) @@ ("output_tokens" :> 5) @@
             ("cache_creation_input_tokens" :> 1)

EventItems ==
    {ContentBlockStart(0), ContentBlockStart(1), ContentBlockStart(2),
     TextDelta(0, "a"), TextDelta(0, "b"), TextDelta(1, "a"), TextDelta(1, "b"),
     MessageDelta("end_turn", NoUsage), MessageDelta("max_tokens", NoUsage)}

UsageItems ==
    {MessageStart("claude-3", UsageOf(Usage1)),
     MessageStart("claude-3-5", UsageOf(InputOnly)),
     MessageStart("claude-3-5", BadUsage),
     MessageDelta("end_turn", UsageOf(OutputOnly)),
     MessageDelta("end_turn", UsageOf(DeltaFull)),
     MessageDelta("max_tokens", UsageOf(InputOnly)),
     MessageDelta("end_turn", NoUsage),
     MessageDelta("max_tokens", BadUsage),
     ContentBlockStart(0), JsonDelta(0), Ping, Malformed}

Flags == [enrich_token_usage : BOOLEAN, use_legacy_attributes : BOOLEAN,
          should_send_prompts : BOOLEAN]

Init ==
    /\ mode \in {"sync", "async"}
    /\ recorders \in SUBSET Recorders
    /\ Config \in Flags
    /\ pc = "start"
    /\ source = <<>>
    /\ received = <<>>
    /\ complete_response = NewResponse
    /\ raised = NoException
    /\ span \in {NewSpan(r) : r \in BOOLEAN}
    /\ metrics = NewMetrics
    /\ fault = NoFault
    /\ peer = NewPeer

Next ==
    \/ NextItem(ProtocolItems, MaxItems)
    \/ NextRaises
    \/ NextExhausted(Faults)
    \/ ConsumerThrow
    \/ ConsumerClose

Spec == Init /\ [][Next]_vars

\* Finalization of richer streams: the consumer pulls to the end, the source
\* does not raise, no collaborator raises.  The exception counter is used
\* only when the consumer throws.
InitTelemetry ==
    /\ Init
    /\ "exception_counter" \notin recorders

NextTelemetry ==
    \/ NextItem(TelemetryItems, MaxStream)
    \/ NextExhausted({})

SpecTelemetry == InitTelemetry /\ [][NextTelemetry]_vars

(***************************************************************************)
(* _process_response_item on its own: the calls the generator makes on it, *)
(* one per item, on the accumulator it created; source is the items folded *)
(* so far.                                                                 *)
(***************************************************************************)
InitFold ==
    /\ mode \in {"sync", "async"}
    /\ recorders = {}
    /\ Config = [enrich_token_usage |-> TRUE, use_legacy_attributes |-> TRUE,
                 should_send_prompts |-> TRUE]
    /\ pc = "yielded"
    /\ source = <<>>
    /\ received = <<>>
    /\ complete_response = NewResponse
    /\ raised = NoException
    /\ span = NewSpan(TRUE)
    /\ metrics = NewMetrics
    /\ fault = NoFault
    /\ peer = NewPeer

Fold(Items, Max) ==
    /\ Len(source) < Max
    /\ \E item \in Items :
        /\ source' = Append(source, item)
        /\ received' = Append(received, item)
        /\ complete_response' = _process_response_item(item, complete_response)
    /\ UNCHANGED <<peer, mode, recorders, Config, pc, raised, span, metrics, fault>>

NextEvents == Fold(EventItems, MaxEvents)
SpecEvents == InitFold /\ [][NextEvents]_vars

NextUsage == Fold(UsageItems, MaxUsage)
SpecUsage == InitFold /\ [][NextUsage]_vars

(***************************************************************************)
(* Two generators over two streams, resumed in any order by their          *)
(* consumers; each step runs one of them from its yield to its next yield  *)
(* or to its end.  No source raises, no collaborator raises.               *)
(***************************************************************************)
OwnItems ==
    {MessageStart("claude-3", UsageOf(Usage1)), ContentBlockStart(0),
     TextDelta(0, "a"), MessageDelta("end_turn", UsageOf(OutputOnly))}

PeerItems ==
    {MessageStart("claude-3-5", UsageOf(InputOnly)), ContentBlockStart(0),
     TextDelta(0, "b"), MessageDelta("max_tokens", UsageOf(DeltaFull))}

InitPeers ==
    /\ Init
    /\ recorders = Recorders \ {"exception_counter"}
    /\ Config.should_send_prompts
    /\ span = NewSpan(TRUE)

NextPeers ==
    \/ NextItem(OwnItems, MaxPeers)
    \/ NextExhausted({})
    \/ PeerItem(PeerItems, MaxPeers)
    \/ PeerExhausted

SpecPeers == InitPeers /\ [][NextPeers]_vars

(***************************************************************************)
(* Properties.                                                             *)
(***************************************************************************)

\* C1: the consumer is handed exactly the items the source has produced,
\* in the source's order, none dropped, duplicated or inserted, whatever
\* their kind; so at the end of the stream it holds the whole sequence.
C1_SameItems == received = source

C1_Witness ==
    /\ pc = "done"
    /\ received = <<Malformed, Ping>>

\* C2: when the pull after the k-th item raises, the consumer has received
\* those k items and gets that exception; the span's status is not set, the
\* span is not ended, and no duration, token or choice metric is recorded.
C2_SourceRaises ==
    raised \in SourceErrors =>
        /\ pc = "raised"
        /\ received = source
        /\ span.status = <<>>
        /\ span.ended = 0
        /\ metrics.duration = <<>>
        /\ metrics.tokens = <<>>
        /\ metrics.choices = <<>>

C2_Witness ==
    /\ raised \in SourceErrors
    /\ Len(received) = 2
    /\ {"duration_histogram", "token_histogram", "choice_counter"} \subseteq recorders

\* C3: when a pull from the source raises and an exception counter is
\* configured, the counter has been incremented exactly once, with the
\* attributes of that exception, when the exception reaches the consumer.
C3_PullErrorCounted ==
    (raised \in SourceErrors /\ "exception_counter" \in recorders) =>
        metrics.exceptions = <<error_metrics_attributes(raised)>>

\* C4: finalization never runs twice, and when the consumer has pulled a
\* normally exhausted source to its end (also one of zero items) it has
\* run once: status OK set once, span ended once, one duration observation
\* when the duration histogram is configured.
C4_FinalizedOnce ==
    /\ Len(span.status) <= 1
    /\ span.ended <= 1
    /\ Len(metrics.duration) <= 1
    /\ pc = "done" =>
        /\ span.status = <<"OK">>
        /\ span.ended = 1
        /\ Len(metrics.duration) = IF "duration_histogram" \in recorders THEN 1 ELSE 0

C4_Witness ==
    /\ pc = "done"
    /\ source = <<>>
    /\ "duration_histogram" \in recorders

\* C5: when a telemetry collaborator raises during finalization, the
\* consumer still gets every source item and then a normal end of stream;
\* no exception reaches it.
C5_TelemetryNeverSurfaces ==
    fault # NoFault =>
        /\ pc = "done"
        /\ raised = NoException
        /\ received = source

\* C6: the two observers are behaviourally identical: at the end of a
\* stream the span and the metrics are what the other observer would have
\* left for the same items, flags and recorders.
OtherMode(md) == IF md = "sync" THEN "async" ELSE "sync"

C6_ModesAgree ==
    pc = "done" =>
        LET other == Finalize(OtherMode(mode), complete_response, recorders, Config,
                              NewSpan(span.recording), NewMetrics, fault)
        IN  /\ other.span = span
            /\ other.metrics = metrics
            /\ other.raised = raised

(***************************************************************************)
(* Properties of the fold, stated against the items folded (source).       *)
(***************************************************************************)
IsBlockStart(item) == item.type = "content_block_start"
IsTextDelta(item) ==
    item.type = "content_block_delta" /\ item.delta_type = "text_delta"
IsUsageDelta(item) == item.type = "message_delta" /\ item.usage.shape = "map"
IsUsableStart(item) == item.type = "message_start" /\ item.usage.shape = "map"

\* The block starts of the stream carry the indices 0, 1, ..., n-1 in turn.
BlockStarts(items) == SelectSeq(items, IsBlockStart)
ContiguousStarts(items) ==
    \A k \in DOMAIN BlockStarts(items) : BlockStarts(items)[k].index = k - 1

\* The text deltas of items addressed to index i, concatenated in order.
RECURSIVE DeltasTo(_, _)
DeltasTo(items, i) ==
    IF items = <<>>
    THEN ""
    ELSE (IF IsTextDelta(Head(items)) /\ Head(items).index = i
          THEN Head(items).text ELSE "")
         \o DeltasTo(Tail(items), i)

\* The items that follow the first block start of index i.
AfterStart(items, i) ==
    LET at == {p \in DOMAIN items : IsBlockStart(items[p]) /\ items[p].index = i}
    IN  IF at = {}
        THEN <<>>
        ELSE LET first == CHOOSE p \in at : \A q \in at : p <= q
             IN  SubSeq(items, first + 1, Len(items))

FinishReasonsFollowEnd ==
    (source # <<>> /\ Last(source).type = "message_delta") =>
        \A i \in DOMAIN complete_response.events :
            complete_response.events[i].finish_reason = Last(source).stop_reason

\* C7 as stated: with block starts 0..n-1 in turn, slot i holds the
\* concatenation of all text deltas addressed to i, and after a message_delta
\* every slot carries its stop reason.
C7_AllDeltas ==
    /\ ContiguousStarts(source) =>
        /\ Len(complete_response.events) = Len(BlockStarts(source))
        /\ \A i \in DOMAIN complete_response.events :
            /\ complete_response.events[i].index = i - 1
            /\ complete_response.events[i].text = DeltasTo(source, i - 1)
    /\ FinishReasonsFollowEnd

\* C7 as amended: with block starts 0..n-1 in turn, slot i holds the
\* concatenation, in arrival order, of the text deltas addressed to i that
\* arrive after the block start of i (deltas of different indices may
\* interleave), and after a message_delta every slot existing then carries
\* its stop reason.
C7_DeltasAfterStart ==
    /\ ContiguousStarts(source) =>
        /\ Len(complete_response.events) = Len(BlockStarts(source))
        /\ \A i \in DOMAIN complete_response.events :
            /\ complete_response.events[i].index = i - 1
            /\ complete_response.events[i].text
                 = DeltasTo(AfterStart(source, i - 1), i - 1)
    /\ FinishReasonsFollowEnd

C7_Witness ==
    /\ source = <<ContentBlockStart(0), ContentBlockStart(1), TextDelta(0, "a"),
                  TextDelta(1, "b"), TextDelta(0, "b")>>
    /\ complete_response.events[1].text = "ab"
    /\ complete_response.events[2].text = "b"

\* C8: after a message_start carrying a usage snapshot, output_tokens is the
\* snapshot's output_tokens (0 if absent) plus the sum of the output_tokens
\* (0 if absent) of the usage deltas of the message_delta items that
\* followed, and every other usage field is as the message_start gave it.
RECURSIVE OutputTokensOf(_)
OutputTokensOf(items) ==
    IF items = <<>>
    THEN 0
    ELSE (IF IsUsageDelta(Head(items))
          THEN Get(Head(items).usage.map, "output_tokens", 0) ELSE 0)
         + OutputTokensOf(Tail(items))

LastUsableStart(items) ==
    LET at == {p \in DOMAIN items : IsUsableStart(items[p])}
    IN  IF at = {} THEN 0 ELSE CHOOSE p \in at : \A q \in at : q <= p

C8_RunningTotal ==
    LET p == LastUsableStart(source)
    IN  p > 0 =>
            LET snapshot == source[p].usage.map
                later == SubSeq(source, p + 1, Len(source))
                usage == complete_response.usage
            IN  /\ Get(usage, "output_tokens", 0)
                     = Get(snapshot, "output_tokens", 0) + OutputTokensOf(later)
                /\ \A k \in (DOMAIN usage \cup DOMAIN snapshot) \ {"output_tokens"} :
                    /\ k \in DOMAIN usage
                    /\ k \in DOMAIN snapshot
                    /\ usage[k] = snapshot[k]

C8_Witness ==
    /\ source = <<MessageStart("claude-3", UsageOf(Usage1)),
                  MessageDelta("end_turn", UsageOf(OutputOnly)),
                  MessageDelta("end_turn", UsageOf(DeltaFull))>>
    /\ complete_response.usage["output_tokens"] = 8
    /\ complete_response.usage["input_tokens"] = 3

\* C9: when completion content is recorded, with use_legacy_attributes
\* every slot i gets the attributes completions.<i>.content and
\* completions.<i>.finish_reason and no completion event is added; without
\* it one completion event is added per slot, carrying that slot's content,
\* index and finish reason, and no completions.<i>.* attribute is set.
IsCompletionKey(key) == key[1] = "gen_ai.completion"

C9_CompletionModes ==
    (/\ pc = "done"
     /\ Config.should_send_prompts
     /\ span.recording
     /\ complete_response.events # <<>>) =>
        LET events == complete_response.events
        IN  IF Config.use_legacy_attributes
            THEN /\ span.events = <<>>
                 /\ \A i \in DOMAIN events :
                     /\ CompletionKey(i - 1, "content") \in DOMAIN span.attributes
                     /\ span.attributes[CompletionKey(i - 1, "content")] = events[i].text
                     /\ CompletionKey(i - 1, "finish_reason") \in DOMAIN span.attributes
                     /\ span.attributes[CompletionKey(i - 1, "finish_reason")]
                          = events[i].finish_reason
            ELSE /\ Len(span.events) = Len(events)
                 /\ \A i \in DOMAIN events :
                     /\ span.events[i].content = events[i].text
                     /\ span.events[i].index = events[i].index
                     /\ span.events[i].finish_reason = events[i].finish_reason
                 /\ \A key \in DOMAIN span.attributes : ~IsCompletionKey(key)

\* C10: events[i].index == i for every slot of the accumulator, after any
\* sequence of items.
C10_IndexIsPosition ==
    \A i \in DOMAIN complete_response.events :
        complete_response.events[i].index = i - 1

\* The accumulator after folding items, one after the other, into cr.
RECURSIVE FoldAll(_, _)
FoldAll(items, cr) ==
    IF items = <<>>
    THEN cr
    ELSE FoldAll(Tail(items), _process_response_item(Head(items), cr))

IsMessageStart(item) == item.type = "message_start"
MessageStarts(items) == SelectSeq(items, IsMessageStart)

AllButLast(seq) == SubSeq(seq, 1, Len(seq) - 1)

\* C12: while the consumer holds the k-th item the accumulator is the fold
\* of items 1..k-1; when the consumer throws into the generator, or closes
\* it, while holding the k-th item, that item is never folded, the
\* exception is the one the consumer gets back, and neither the duration
\* metric, the span status nor the end of the span takes place.
C12_ForwardBeforeFold ==
    /\ pc = "yielded" =>
        /\ received = source
        /\ complete_response = FoldAll(AllButLast(source), NewResponse)
    /\ (raised \in ConsumerErrors \/ pc = "closed") =>
        /\ pc \in {"raised", "closed"}
        /\ received = source
        /\ complete_response = FoldAll(AllButLast(source), NewResponse)
        /\ metrics.duration = <<>>
        /\ span.status = <<>>
        /\ span.ended = 0

C12_Witness ==
    /\ raised \in ConsumerErrors
    /\ source = <<ContentBlockStart(0), TextDelta(0, "a")>>
    /\ complete_response.events = <<NewEvent(0)>>
    /\ "duration_histogram" \in recorders

\* One increment per slot, in slot order, tagged with the slot's finish
\* reason and the shared metric attributes.
ChoicePerSlot(cr) ==
    [i \in 1..Len(cr.events) |->
        [finish_reason |-> cr.events[i].finish_reason, model |-> cr.model]]

\* _set_token_usage is called: enrichment is on and both token counts were
\* resolved.  In abuild_from_streaming_response a stream with no usage and
\* with no events or no model leaves completion_tokens unbound.
TokenUsageReached ==
    /\ Config.enrich_token_usage
    /\ ~(/\ mode = "async"
         /\ ~Truthy(complete_response.usage)
         /\ (complete_response.events = <<>> \/ complete_response.model = ""))

CacheTokens(usage) ==
    Get(usage, "cache_read_input_tokens", 0)
        + Get(usage, "cache_creation_input_tokens", 0)

PromptTokensWritten == AttributeKey("prompt_tokens") \in DOMAIN span.attributes

\* C14 as stated: with enrichment on, the prompt token count is the
\* usage's input_tokens when the usage holds it and the collaborator's
\* count in every other case, an empty usage and a usage with other fields
\* only alike.  (The span attribute is the count plus the cache counters.)
C14_CountsWhenNoInputTokens ==
    (pc = "done" /\ Config.enrich_token_usage /\ PromptTokensWritten) =>
        span.attributes[AttributeKey("prompt_tokens")] =
            CacheTokens(complete_response.usage)
              + (IF "input_tokens" \in DOMAIN complete_response.usage
                 THEN complete_response.usage["input_tokens"]
                 ELSE PromptTokens)

\* C14 as amended: the collaborator is asked only when the usage is empty;
\* a non-empty usage without input_tokens gives a prompt token count of 0.
C14_CountsWhenUsageEmpty ==
    (pc = "done" /\ Config.enrich_token_usage /\ PromptTokensWritten) =>
        span.attributes[AttributeKey("prompt_tokens")] =
            CacheTokens(complete_response.usage)
              + (IF "input_tokens" \in DOMAIN complete_response.usage
                 THEN complete_response.usage["input_tokens"]
                 ELSE IF complete_response.usage # EmptyDict
                 THEN 0
                 ELSE PromptTokens)

C14_Witness ==
    /\ pc = "done"
    /\ Config.enrich_token_usage
    /\ complete_response.usage # EmptyDict
    /\ "input_tokens" \notin DOMAIN complete_response.usage
    /\ PromptTokensWritten
    /\ span.attributes[AttributeKey("prompt_tokens")] = 0

\* C15: a message_delta with a usage, applied when no message_start has set
\* the usage, leaves the accumulator's usage equal to the whole mapping of
\* the delta.
C15_DeltaBecomesSnapshot ==
    LET deltas == SelectSeq(source, IsUsageDelta)
    IN  (MessageStarts(source) = <<>> /\ Len(deltas) = 1) =>
            complete_response.usage = deltas[1].usage.map

IsOrphanDelta(item, cr) == IsTextDelta(item) /\ item.index >= Len(cr.events)

\* The fold of items in which a text delta for a slot that does not exist
\* is passed over.
RECURSIVE FoldDropping(_, _)
FoldDropping(items, cr) ==
    IF items = <<>>
    THEN cr
    ELSE FoldDropping(Tail(items),
                      IF IsOrphanDelta(Head(items), cr)
                      THEN cr
                      ELSE _process_response_item(Head(items), cr))

\* C16: a text delta whose index has no slot changes nothing in the
\* accumulator and does not stop the stream: it is yielded like any item,
\* the items after it are yielded and folded, and on normal exhaustion the
\* span is ended.
C16_OrphanDeltaIgnored ==
    /\ pc = "yielded" =>
        /\ received = source
        /\ complete_response = FoldDropping(AllButLast(source), NewResponse)
    /\ pc = "done" =>
        /\ received = source
        /\ complete_response = FoldDropping(source, NewResponse)
        /\ span.ended = 1

C16_Witness ==
    /\ pc = "done"
    /\ source = <<TextDelta(0, "a"), ContentBlockStart(0)>>
    /\ received = source
    /\ complete_response.events = <<NewEvent(0)>>
    /\ span.ended = 1

WellFormed(item) ==
    /\ item.type \in {"message_start", "content_block_start",
                      "content_block_delta", "message_delta"}
    /\ item.type = "content_block_delta" => item.delta_type = "text_delta"
    /\ item.usage.shape # "bad"

\* C17: an item that is not recognised, or that has a field that cannot be
\* read, changes nothing: the accumulator is the fold of the well-formed
\* items of the stream alone.
C17_MalformedIgnored ==
    complete_response = FoldAll(SelectSeq(source, WellFormed), NewResponse)

\* C18: the span is ended only after the source is exhausted and every item
\* was yielded and folded, and then once and with status OK; no status
\* other than OK is ever set; a consumer that closes the generator before
\* exhaustion leaves the span open and every metric unrecorded.
C18_EndedOnlyAfterExhaustion ==
    /\ span.ended > 0 =>
        /\ pc = "done"
        /\ received = source
        /\ complete_response = FoldAll(source, NewResponse)
        /\ span.status = <<"OK">>
        /\ span.ended = 1
    /\ \A i \in DOMAIN span.status : span.status[i] = "OK"
    /\ pc = "closed" =>
        /\ span.ended = 0
        /\ span.status = <<>>
        /\ metrics = NewMetrics

C18_Witness ==
    /\ pc = "closed"
    /\ source = <<ContentBlockStart(0), TextDelta(0, "a")>>
    /\ recorders = Recorders
    /\ span.ended = 0

TokenKeys == {AttributeKey("completion_tokens"), AttributeKey("total_tokens")}

\* C20: every completion and total token count written to the span, and
\* every value recorded on the token histogram, is non-negative.
C20_NoNegativeTokens ==
    /\ \A k \in TokenKeys \cap DOMAIN span.attributes : span.attributes[k] >= 0
    /\ \A i \in DOMAIN metrics.tokens : metrics.tokens[i].value >= 0

\* The items a generator has folded: all it has pulled but the one it is
\* suspended on.
Folded(at, items) == IF at = "yielded" THEN AllButLast(items) ELSE items

\* What finalization gives to a new span and to the recorders for a stream.
TelemetryOf(items) ==
    LET r == Finalize(mode, FoldAll(items, NewResponse), recorders, Config,
                      NewSpan(TRUE), NewMetrics, NoFault)
    IN  [span |-> r.span, metrics |-> r.metrics]

\* C19: with two generators over two streams resumed in any order, the
\* accumulator of each is the fold of the items of its own stream, and
\* what each gives to its span and to the recorders at finalization is
\* what its own stream alone gives.
C19_OwnStreamOnly ==
    /\ complete_response = FoldAll(Folded(pc, source), NewResponse)
    /\ peer.complete_response
         = FoldAll(Folded(peer.pc, peer.source), NewResponse)
    /\ pc = "done" =>
        [span |-> span, metrics |-> metrics] = TelemetryOf(source)
    /\ peer.pc = "done" =>
        [span |-> peer.span, metrics |-> peer.metrics] = TelemetryOf(peer.source)

C19_Witness ==
    /\ pc = "yielded"
    /\ source = <<MessageStart("claude-3", UsageOf(Usage1)), ContentBlockStart(0)>>
    /\ complete_response.model = "claude-3"
    /\ peer.pc = "done"
    /\ peer.source = <<MessageStart("claude-3-5", UsageOf(InputOnly)),
                       MessageDelta("max_tokens", UsageOf(DeltaFull))>>
    /\ peer.complete_response.model = "claude-3-5"
    /\ peer.span.ended = 1

====
